---- MODULE Spec2Model ----
(***************************************************************************)
(* Model of the product-detail page, src/src/app/products/[id]/page.tsx.   *)
(* The page is a React client component: its state is the five useState    *)
(* cells, the route identifier, the auth context's user, and the position  *)
(* of every handleCheckout invocation that is suspended at an await.       *)
(* Text that the page converts (URLs, prices) is a sequence of one-        *)
(* character strings, so that encodeURIComponent and Intl.NumberFormat     *)
(* are computed character by character; plain messages are strings.        *)
(***************************************************************************)
EXTENDS Integers, Sequences, FiniteSets, TLC

(* ------------------------------ bounds --------------------------------- *)

\* How many times the checkout button (or the go-back button) is clicked.
MaxClicks == 2

(* ---------------------- the external catalog --------------------------- *)

\* products (import of '@/data/products'): the static catalog, in order.
\* Each record carries the Product fields the page reads.  An optional
\* subscriptionPrice is a flag plus a number (undefined when the flag is
\* FALSE).
products ==
  << [id |-> <<"p", "1">>, name |-> "Soap", description |-> "Mild",
      price |-> 1000, hasSubscriptionPrice |-> TRUE, subscriptionPrice |-> 800,
      stock |-> 5, isSubscription |-> TRUE,
      images |-> << <<"/", "a">>, <<"h", ":", "b">> >>],
     [id |-> <<"p", "2">>, name |-> "Oil", description |-> "",
      price |-> 1000, hasSubscriptionPrice |-> TRUE, subscriptionPrice |-> 0,
      stock |-> 0, isSubscription |-> TRUE,
      images |-> << <<"/", "c">> >>],
     [id |-> <<"p", "3">>, name |-> "Balm", description |-> "Rich",
      price |-> 1500, hasSubscriptionPrice |-> FALSE, subscriptionPrice |-> 0,
      stock |-> 3, isSubscription |-> TRUE,
      images |-> << <<"/", "d">>, <<"/", "e">>, <<"h", ":", "f">> >>],
     [id |-> <<"p", "4">>, name |-> "Card", description |-> "Gift",
      price |-> 200, hasSubscriptionPrice |-> FALSE, subscriptionPrice |-> 0,
      stock |-> 1, isSubscription |-> FALSE,
      images |-> << >>],
     [id |-> <<"a", " ", "b">>, name |-> "Tea", description |-> "Green",
      price |-> 12345, hasSubscriptionPrice |-> TRUE, subscriptionPrice |-> 900,
      stock |-> 2, isSubscription |-> FALSE,
      images |-> << <<"h", ":", "g">> >>],
     [id |-> <<"p", "1">>, name |-> "Soap (old)", description |-> "Mild",
      price |-> 900, hasSubscriptionPrice |-> FALSE, subscriptionPrice |-> 0,
      stock |-> 0, isSubscription |-> FALSE,
      images |-> << <<"/", "z">> >>] >>

\* The identifiers a route may carry: those of the catalog and one that the
\* catalog does not hold.
RouteIds == {products[i].id : i \in 1..Len(products)} \cup {<<"z", "z">>}

\* The value of `product` when find yields undefined.
NoProduct == [id |-> << >>, name |-> "undefined", description |-> "",
              price |-> 0, hasSubscriptionPrice |-> FALSE, subscriptionPrice |-> 0,
              stock |-> 0, isSubscription |-> FALSE, images |-> << >>]

\* The auth context's user when nobody is signed in, and the users it may hold.
NoUser == "null"
Users == {NoUser, "alice"}

(* ------------------------------ text ----------------------------------- *)

\* Mutant of FindFrom: the scan starts one element late.
RECURSIVE FindFromSkipsFirst(_, _, _)
FindFromSkipsFirst(list, x, i) ==
  IF i + 1 > Len(list) THEN NoProduct
  ELSE IF list[i + 1].id = x THEN list[i + 1]
  ELSE FindFromSkipsFirst(list, x, i + 1)

\* Array.prototype.find with p => p.id === x: the first match, scanning from index i.
RECURSIVE FindFrom(_, _, _)
FindFrom(list, x, i) ==
  IF i > Len(list) THEN NoProduct
  ELSE IF list[i].id = x THEN list[i]
  ELSE FindFrom(list, x, i + 1)

\* The characters encodeURIComponent leaves alone, among those the model uses.
UriUnreserved == {"p", "r", "o", "d", "u", "c", "t", "s", "a", "b", "z",
                  "0", "1", "2", "3", "4", "5", "6", "7", "8", "9",
                  "-", "_", ".", "!", "~", "*", "'", "(", ")"}

\* The UTF-8 percent escape of one character.
PercentEscape(c) ==
  CASE c = "/" -> <<"%", "2", "F">>
    [] c = " " -> <<"%", "2", "0">>
    [] c = "?" -> <<"%", "3", "F">>
    [] c = "=" -> <<"%", "3", "D">>
    [] c = "%" -> <<"%", "2", "5">>
    [] OTHER   -> <<"%", "x", "x">>

\* encodeURIComponent(s).
RECURSIVE encodeURIComponent(_)
encodeURIComponent(s) ==
  IF s = << >> THEN << >>
  ELSE (IF Head(s) \in UriUnreserved THEN <<Head(s)>> ELSE PercentEscape(Head(s)))
       \o encodeURIComponent(Tail(s))

\* The template `/products/${id}`.
ProductPath(i) == <<"/", "p", "r", "o", "d", "u", "c", "t", "s", "/">> \o i

LoginPrefix == <<"/", "l", "o", "g", "i", "n", "?", "r", "e", "d", "i", "r", "e", "c", "t", "=">>

\* The argument of router.push in handleCheckout.
LoginUrl(i) == LoginPrefix \o encodeURIComponent(ProductPath(i))

\* The decimal digits of a natural number.
RECURSIVE Digits(_)
Digits(n) ==
  IF n < 10 THEN <<SubSeq(<<"0", "1", "2", "3", "4", "5", "6", "7", "8", "9">>, n + 1, n + 1)[1]>>
  ELSE Digits(n \div 10) \o Digits(n % 10)

\* Digits grouped in threes from the right.
RECURSIVE Grouped(_)
Grouped(ds) ==
  IF Len(ds) <= 3 THEN ds
  ELSE Grouped(SubSeq(ds, 1, Len(ds) - 3)) \o <<",">> \o SubSeq(ds, Len(ds) - 2, Len(ds))

\* formatPrice: Intl.NumberFormat('ja-JP', {style: 'currency', currency: 'JPY'}).
formatPrice(price) == <<"JPY">> \o Grouped(Digits(price))

(* ----------------------------- messages -------------------------------- *)

\* The page's messages are Japanese string literals; each is rendered here in
\* English, one distinct string per literal.

\* The argument of setError when payment is unavailable (line 80).
ConfigMessage == "payment system is not configured; contact the administrator"

\* The initial value of errorMessage for a non-OK response (line 124).
SessionCreateFailed == "failed to create the checkout session"

\* The message thrown when data.sessionId is missing (line 138).
SessionIdMissing == "could not obtain the session id"

\* The message thrown when getStripe() yields null (line 147).
StripeInitFailed == "failed to initialise Stripe; check the browser settings"

\* The default of result.error.message (line 158).
RedirectFailed == "failed to redirect to the checkout page"

\* The text before ${error.message || ''} in the catch block (line 162).
ErrorPrefix == "an error occurred during payment: "

(* ------------------------- wire-level values --------------------------- *)

\* The JSON bodies a response may carry: text that does not parse, the JSON
\* value null, and objects with or without the `error` and `sessionId` fields.
Body(kind, hasError, err, hasSessionId, sid) ==
  [kind |-> kind, hasError |-> hasError, error |-> err,
   hasSessionId |-> hasSessionId, sessionId |-> sid]

Bodies ==
  { Body("invalid", FALSE, "", FALSE, ""),
    Body("null", FALSE, "", FALSE, ""),
    Body("object", FALSE, "", FALSE, ""),
    Body("object", TRUE, "out of stock", FALSE, ""),
    Body("object", TRUE, "", FALSE, ""),
    Body("object", FALSE, "", TRUE, "cs_123"),
    Body("object", FALSE, "", TRUE, "") }

\* What fetch resolves to: response.ok and the body that response.json() reads.
Responses == [ok : BOOLEAN, body : Bodies]

\* The local `response` before fetch has resolved and after the function has ended.
NoResponse == [ok |-> FALSE, body |-> Body("none", FALSE, "", FALSE, "")]

\* Messages of the errors the awaited promises may reject with.
RejectMessages == {"Failed to fetch", ""}

\* What redirectToCheckout resolves to: {} or {error: {message}}.
RedirectResults ==
  { [hasError |-> FALSE, message |-> ""],
    [hasError |-> TRUE, message |-> "session expired"],
    [hasError |-> TRUE, message |-> ""] }

\* JavaScript truthiness of errorData && errorData.error.
HasErrorField(b) == b.kind = "object" /\ b.hasError /\ b.error # ""

\* Mutant of HasSessionId: the session-id test is dropped.
HasSessionIdAlways(b) == TRUE

\* JavaScript truthiness of data && data.sessionId.
HasSessionId(b) == b.kind = "object" /\ b.hasSessionId /\ b.sessionId # ""

(* ------------------------------- state --------------------------------- *)

VARIABLES
  id,                \* params.id, the route identifier
  user,              \* useAuthContext().user
  activeImageIndex,  \* useState(0)
  purchaseType,      \* useState('one-time')
  isLoading,         \* useState(false)
  error,             \* useState('')
  stripeAvailable,   \* useState(false)
  mounted,           \* whether the mount effect (checkStripe) has run
  probeOutcome,      \* what checkStripeConfig() did in the mount effect
  calls,             \* the handleCheckout invocations that passed both preconditions
  clicks,            \* how many times handleCheckout has been invoked
  navLog             \* the calls made on the router, in order

vars == <<id, user, activeImageIndex, purchaseType, isLoading, error,
          stripeAvailable, mounted, probeOutcome, calls, clicks, navLog>>

uiState == <<activeImageIndex, purchaseType, isLoading, error, stripeAvailable>>

\* const product = products.find(p => p.id === id)
product == FindFrom(products, id, 1)

\* !product is false: the product view renders, otherwise the not-found view.
Found == \E i \in 1..Len(products) : products[i].id = id

(* ------------------------------ the view ------------------------------- *)

\* Mutant of ButtonDisabled: the stock test is dropped.
ButtonDisabledIgnoresStock == isLoading

\* Mutant of ButtonDisabled: the loading test is dropped.
ButtonDisabledIgnoresLoading == product.stock <= 0

\* disabled={isLoading || product.stock <= 0}
ButtonDisabled == isLoading \/ product.stock <= 0

\* {isLoading ? 'processing' : product.stock <= 0 ? 'out of stock' : 'buy'}
ButtonLabel ==
  IF isLoading THEN "processing"
  ELSE IF product.stock <= 0 THEN "out-of-stock" ELSE "buy"

\* The thumbnails rendered: product.images.length > 1 && product.images.map(...)
ThumbnailIndexes ==
  IF Len(product.images) > 1 THEN 0..(Len(product.images) - 1) ELSE {}

\* src={product.images[activeImageIndex]}, a 0-based read that yields undefined
\* past the end.
MainImageSrc ==
  IF activeImageIndex + 1 \in 1..Len(product.images)
  THEN product.images[activeImageIndex + 1]
  ELSE <<"undefined">>

\* The first price span: formatPrice(product.price).
PriceDisplay == formatPrice(product.price)

\* product.subscriptionPrice || 0
SubscriptionPriceOrZero ==
  IF product.hasSubscriptionPrice /\ product.subscriptionPrice # 0
  THEN product.subscriptionPrice ELSE 0

\* The second price span, rendered only for a subscription product in
\* subscription mode; << >> when it is not rendered.
SubscriptionPriceDisplay ==
  IF product.isSubscription /\ purchaseType = "subscription"
  THEN formatPrice(SubscriptionPriceOrZero) \o <<"/", "month">>
  ELSE << >>

(* --------------------------- initial state ----------------------------- *)

Init ==
  /\ id \in RouteIds
  /\ user \in Users
  /\ activeImageIndex = 0
  /\ purchaseType = "one-time"
  /\ isLoading = FALSE
  /\ error = ""
  /\ stripeAvailable = FALSE
  /\ mounted = FALSE
  /\ probeOutcome = "pending"
  /\ calls = << >>
  /\ clicks = 0
  /\ navLog = << >>

(* --------------------------- mount effect ------------------------------ *)

\* Mutant of CheckStripe: the effect has no dependency array and runs again
\* after later renders.
CheckStripeRepeats ==
  /\ \E probe \in {"true", "false", "throws"} :
       /\ probeOutcome' = probe
       /\ stripeAvailable' = (probe = "true")
  /\ mounted' = TRUE
  /\ UNCHANGED <<id, user, activeImageIndex, purchaseType, isLoading, error,
                 calls, clicks, navLog>>

\* useEffect(() => { checkStripe() }, []): checkStripeConfig() yields true or
\* false or throws; the catch records false.
CheckStripe ==
  /\ ~mounted
  /\ \E probe \in {"true", "false", "throws"} :
       /\ probeOutcome' = probe
       /\ stripeAvailable' = (probe = "true")
  /\ mounted' = TRUE
  /\ UNCHANGED <<id, user, activeImageIndex, purchaseType, isLoading, error,
                 calls, clicks, navLog>>

(* ------------------------ the auth collaborator ------------------------ *)

\* The auth context replaces its user (sign-in, sign-out) at any time.
AuthChange ==
  /\ \E u \in Users \ {user} : user' = u
  /\ UNCHANGED <<id, activeImageIndex, purchaseType, isLoading, error,
                 stripeAvailable, mounted, probeOutcome, calls, clicks, navLog>>

(* ----------------------------- user events ----------------------------- *)

\* onClick={() => setActiveImageIndex(index)} on thumbnail `index`.
ClickThumbnail ==
  /\ mounted /\ Found
  /\ \E index \in ThumbnailIndexes : activeImageIndex' = index
  /\ UNCHANGED <<id, user, purchaseType, isLoading, error, stripeAvailable,
                 mounted, probeOutcome, calls, clicks, navLog>>

\* Mutant of SetPurchaseType: the two buttons are rendered for every product.
SetPurchaseTypeAlwaysShown ==
  /\ mounted /\ Found
  /\ \E t \in {"one-time", "subscription"} : purchaseType' = t
  /\ UNCHANGED <<id, user, activeImageIndex, isLoading, error, stripeAvailable,
                 mounted, probeOutcome, calls, clicks, navLog>>

\* onClick={() => setPurchaseType(...)} on the two buttons rendered when
\* product.isSubscription.
SetPurchaseType ==
  /\ mounted /\ Found
  /\ product.isSubscription
  /\ \E t \in {"one-time", "subscription"} : purchaseType' = t
  /\ UNCHANGED <<id, user, activeImageIndex, isLoading, error, stripeAvailable,
                 mounted, probeOutcome, calls, clicks, navLog>>

\* onClick={() => router.back()} in the not-found view.
GoBack ==
  /\ mounted /\ ~Found
  /\ Len(navLog) < MaxClicks
  /\ navLog' = Append(navLog, [op |-> "back", url |-> << >>])
  /\ UNCHANGED <<id, user, activeImageIndex, purchaseType, isLoading, error,
                 stripeAvailable, mounted, probeOutcome, calls, clicks>>

(* --------------------------- handleCheckout ---------------------------- *)

\* process.env.NEXT_PUBLIC_SITE_URL (unset here) and window.location.origin.
NextPublicSiteUrl == << >>
WindowOrigin == <<"h", ":", "o">>

\* const baseUrl = process.env.NEXT_PUBLIC_SITE_URL || window.location.origin
BaseUrl == IF NextPublicSiteUrl # << >> THEN NextPublicSiteUrl ELSE WindowOrigin

\* img.startsWith('/') ? `${baseUrl}${img}` : img
AbsoluteUrl(img) ==
  IF Len(img) > 0 /\ img[1] = "/" THEN BaseUrl \o img ELSE img

\* product.images.map(...)
ProductImages == [k \in 1..Len(product.images) |-> AbsoluteUrl(product.images[k])]

\* Mutant of RequestPrice: the subscription price is never used.
RequestPriceAlwaysBase == product.price

\* purchaseType === 'subscription' && product.subscriptionPrice
\*   ? product.subscriptionPrice : product.price
RequestPrice ==
  IF /\ purchaseType = "subscription"
     /\ product.hasSubscriptionPrice
     /\ product.subscriptionPrice # 0
  THEN product.subscriptionPrice
  ELSE product.price

\* The body of the POST to /api/create-checkout-session.
RequestBody ==
  [items |-> << [name |-> product.name,
                 description |-> product.description,
                 images |-> ProductImages,
                 price |-> RequestPrice,
                 quantity |-> 1] >>,
   purchaseType |-> purchaseType]

\* Mutant of Authenticated: the user test is dropped.
AuthenticatedAlways == TRUE

\* if (!user) fails: a user is present.
Authenticated == user # NoUser

\* Mutant of PaymentAvailable: the availability test is dropped.
PaymentAvailableAlways == TRUE

\* if (!stripeAvailable) fails: the payment provider is configured.
PaymentAvailable == stripeAvailable

\* A handleCheckout invocation suspended at `await fetch(...)`: its locals
\* (response, sessionId, stripe), how many times it has called each
\* collaborator and with what, and okSessionId, the session identifier that the
\* wire carried in an OK response ("" when it carried none).
NewCall ==
  [pc |-> "fetch", request |-> RequestBody, requests |-> 1,
   response |-> NoResponse, okSessionId |-> "", sessionId |-> "",
   stripe |-> "none",
   factoryCalls |-> 0, redirectCalls |-> 0, redirectArg |-> ""]

\* Mutant of HandleCheckout: setError('') is missing after setIsLoading(true).
HandleCheckoutKeepsError ==
  /\ mounted /\ Found
  /\ ~ButtonDisabled
  /\ clicks < MaxClicks
  /\ clicks' = clicks + 1
  /\ IF ~Authenticated
     THEN /\ navLog' = Append(navLog, [op |-> "push", url |-> LoginUrl(id)])
          /\ UNCHANGED <<isLoading, error, calls>>
     ELSE IF ~PaymentAvailable
     THEN /\ error' = ConfigMessage
          /\ UNCHANGED <<isLoading, calls, navLog>>
     ELSE /\ isLoading' = TRUE
          /\ calls' = Append(calls, NewCall)
          /\ UNCHANGED <<error, navLog>>
  /\ UNCHANGED <<id, user, activeImageIndex, purchaseType, stripeAvailable,
                 mounted, probeOutcome>>

\* Mutant of HandleCheckout: setError('') comes first, before the user test.
HandleCheckoutClearsErrorFirst ==
  /\ mounted /\ Found
  /\ ~ButtonDisabled
  /\ clicks < MaxClicks
  /\ clicks' = clicks + 1
  /\ IF ~Authenticated
     THEN /\ navLog' = Append(navLog, [op |-> "push", url |-> LoginUrl(id)])
          /\ error' = ""
          /\ UNCHANGED <<isLoading, calls>>
     ELSE IF ~PaymentAvailable
     THEN /\ error' = ConfigMessage
          /\ UNCHANGED <<isLoading, calls, navLog>>
     ELSE /\ isLoading' = TRUE
          /\ error' = ""
          /\ calls' = Append(calls, NewCall)
          /\ UNCHANGED navLog
  /\ UNCHANGED <<id, user, activeImageIndex, purchaseType, stripeAvailable,
                 mounted, probeOutcome>>

\* A click on the checkout button, which the browser delivers only while the
\* button is not disabled: handleCheckout up to its first await.
HandleCheckout ==
  /\ mounted /\ Found
  /\ ~ButtonDisabled
  /\ clicks < MaxClicks
  /\ clicks' = clicks + 1
  /\ IF ~Authenticated
     THEN /\ navLog' = Append(navLog, [op |-> "push", url |-> LoginUrl(id)])
          /\ UNCHANGED <<isLoading, error, calls>>
     ELSE IF ~PaymentAvailable
     THEN /\ error' = ConfigMessage
          /\ UNCHANGED <<isLoading, calls, navLog>>
     ELSE /\ isLoading' = TRUE
          /\ error' = ""
          /\ calls' = Append(calls, NewCall)
          /\ UNCHANGED navLog
  /\ UNCHANGED <<id, user, activeImageIndex, purchaseType, stripeAvailable, mounted, probeOutcome>>

\* Mutant of Throw: the catch block forgets setIsLoading(false).
ThrowKeepsLoading(i, c, message) ==
  /\ error' = ErrorPrefix \o message
  /\ UNCHANGED isLoading
  /\ calls' = [calls EXCEPT ![i] = [c EXCEPT !.pc = "caught", !.response = NoResponse]]

\* The catch block, entered by invocation i (whose record is now c) with an
\* error carrying `message`: setError(prefix + (error.message || '')),
\* setIsLoading(false); the function then ends and its locals are gone.
Throw(i, c, message) ==
  /\ error' = ErrorPrefix \o message
  /\ isLoading' = FALSE
  /\ calls' = [calls EXCEPT ![i] = [c EXCEPT !.pc = "caught", !.response = NoResponse]]

\* Mutant of FetchRejected: a rejected request is sent once more before
\* the failure is reported.
FetchRejectedRetries(i) ==
  /\ calls[i].pc = "fetch"
  /\ IF calls[i].requests < 2
     THEN /\ calls' = [calls EXCEPT ![i].requests = @ + 1]
          /\ UNCHANGED <<isLoading, error>>
     ELSE \E m \in RejectMessages : Throw(i, calls[i], m)
  /\ UNCHANGED <<id, user, activeImageIndex, purchaseType, stripeAvailable,
                 mounted, probeOutcome, clicks, navLog>>

\* await fetch(...) rejects (network failure).
FetchRejected(i) ==
  /\ calls[i].pc = "fetch"
  /\ \E m \in RejectMessages : Throw(i, calls[i], m)
  /\ UNCHANGED <<id, user, activeImageIndex, purchaseType, stripeAvailable,
                 mounted, probeOutcome, clicks, navLog>>

\* Mutant of FetchResolved: loading is reset as soon as the response arrives.
FetchResolvedClearsLoading(i) ==
  /\ calls[i].pc = "fetch"
  /\ \E r \in Responses :
       calls' = [calls EXCEPT ![i] =
                   [@ EXCEPT !.response = r,
                             !.okSessionId = IF r.ok /\ r.body.hasSessionId
                                             THEN r.body.sessionId ELSE "",
                             !.pc = IF r.ok THEN "dataJson" ELSE "errorJson"]]
  /\ isLoading' = FALSE
  /\ UNCHANGED <<id, user, activeImageIndex, purchaseType, error,
                 stripeAvailable, mounted, probeOutcome, clicks, navLog>>

\* await fetch(...) resolves with a response; handleCheckout goes on to
\* await response.json(), in the !response.ok branch or after it.
FetchResolved(i) ==
  /\ calls[i].pc = "fetch"
  /\ \E r \in Responses :
       calls' = [calls EXCEPT ![i] =
                   [@ EXCEPT !.response = r,
                             !.okSessionId = IF r.ok /\ r.body.hasSessionId
                                             THEN r.body.sessionId ELSE "",
                             !.pc = IF r.ok THEN "dataJson" ELSE "errorJson"]]
  /\ UNCHANGED <<id, user, activeImageIndex, purchaseType, isLoading, error,
                 stripeAvailable, mounted, probeOutcome, clicks, navLog>>

\* Mutant of NonOkMessage: the body's error field is ignored.
NonOkMessageAlwaysDefault(b) == SessionCreateFailed

\* The message thrown for a non-OK response: errorData.error when it is
\* truthy, the default when it is not or when the body does not parse.
NonOkMessage(b) ==
  IF HasErrorField(b) THEN b.error ELSE SessionCreateFailed

\* await response.json() settles in the !response.ok branch, and
\* throw new Error(errorMessage) follows either way.
ErrorJsonSettled(i) ==
  /\ calls[i].pc = "errorJson"
  /\ Throw(i, calls[i], NonOkMessage(calls[i].response.body))
  /\ UNCHANGED <<id, user, activeImageIndex, purchaseType, stripeAvailable,
                 mounted, probeOutcome, clicks, navLog>>

\* The session identifier handed on after a good response: data.sessionId.
SessionIdOf(b) == b.sessionId

\* const data = await response.json() settles: a body that does not parse
\* rejects, a body without a session id throws, and otherwise getStripe() is
\* called and awaited.
DataJsonSettled(i) ==
  /\ calls[i].pc = "dataJson"
  /\ LET b == calls[i].response.body IN
       IF b.kind = "invalid"
       THEN \E m \in RejectMessages : Throw(i, calls[i], m)
       ELSE IF ~HasSessionId(b)
       THEN Throw(i, calls[i], SessionIdMissing)
       ELSE /\ calls' = [calls EXCEPT ![i] =
                           [@ EXCEPT !.pc = "getStripe",
                                     !.sessionId = SessionIdOf(b),
                                     !.factoryCalls = @ + 1]]
            /\ UNCHANGED <<isLoading, error>>
  /\ UNCHANGED <<id, user, activeImageIndex, purchaseType, stripeAvailable,
                 mounted, probeOutcome, clicks, navLog>>

\* What getStripe() may settle to.
StripeOutcomes == {"client", "null", "rejects"}

\* Mutant of RedirectArgument: the redirect is handed an unset identifier.
RedirectArgumentUnset(c) == ""

\* The sessionId passed to stripe.redirectToCheckout.
RedirectArgument(c) == c.sessionId

\* const stripe = await getStripe() settles: null throws, a rejection is
\* caught, and a client has redirectToCheckout called and awaited.
GetStripeSettled(i) ==
  /\ calls[i].pc = "getStripe"
  /\ \E o \in StripeOutcomes :
       CASE o = "null" -> Throw(i, [calls[i] EXCEPT !.stripe = "null"], StripeInitFailed)
         [] o = "rejects" -> \E m \in RejectMessages : Throw(i, calls[i], m)
         [] o = "client" ->
              /\ calls' = [calls EXCEPT ![i] =
                             [@ EXCEPT !.pc = "redirect",
                                       !.stripe = "client",
                                       !.redirectArg = RedirectArgument(calls[i]),
                                       !.redirectCalls = @ + 1]]
              /\ UNCHANGED <<isLoading, error>>
  /\ UNCHANGED <<id, user, activeImageIndex, purchaseType, stripeAvailable,
                 mounted, probeOutcome, clicks, navLog>>

\* result.error.message || the default redirect message
RedirectMessage(result) ==
  IF result.message # "" THEN result.message ELSE RedirectFailed

\* await stripe.redirectToCheckout(...) resolves: with an error it throws,
\* without one handleCheckout returns and touches no state.
RedirectResolved(i) ==
  /\ calls[i].pc = "redirect"
  /\ \E result \in RedirectResults :
       IF result.hasError
       THEN Throw(i, calls[i], RedirectMessage(result))
       ELSE /\ calls' = [calls EXCEPT ![i] =
                           [@ EXCEPT !.pc = "returned", !.response = NoResponse]]
            /\ UNCHANGED <<isLoading, error>>
  /\ UNCHANGED <<id, user, activeImageIndex, purchaseType, stripeAvailable,
                 mounted, probeOutcome, clicks, navLog>>

\* await stripe.redirectToCheckout(...) rejects.
RedirectRejected(i) ==
  /\ calls[i].pc = "redirect"
  /\ \E m \in RejectMessages : Throw(i, calls[i], m)
  /\ UNCHANGED <<id, user, activeImageIndex, purchaseType, stripeAvailable,
                 mounted, probeOutcome, clicks, navLog>>

(* --------------------------- specification ----------------------------- *)

Next ==
  \/ CheckStripe
  \/ AuthChange
  \/ ClickThumbnail
  \/ SetPurchaseType
  \/ GoBack
  \/ HandleCheckout
  \/ \E i \in 1..Len(calls) : FetchRejected(i)
  \/ \E i \in 1..Len(calls) : FetchResolved(i)
  \/ \E i \in 1..Len(calls) : ErrorJsonSettled(i)
  \/ \E i \in 1..Len(calls) : DataJsonSettled(i)
  \/ \E i \in 1..Len(calls) : GetStripeSettled(i)
  \/ \E i \in 1..Len(calls) : RedirectResolved(i)
  \/ \E i \in 1..Len(calls) : RedirectRejected(i)

Spec == Init /\ [][Next]_vars

TypeOK ==
  /\ id \in RouteIds
  /\ user \in Users
  /\ activeImageIndex \in 0..3
  /\ purchaseType \in {"one-time", "subscription"}
  /\ isLoading \in BOOLEAN
  /\ stripeAvailable \in BOOLEAN
  /\ mounted \in BOOLEAN
  /\ probeOutcome \in {"pending", "true", "false", "throws"}
  /\ clicks \in 0..MaxClicks
  /\ Len(calls) <= clicks
  /\ Len(navLog) <= MaxClicks

(* ------------------------- derived quantities -------------------------- *)

\* The requests sent to /api/create-checkout-session by the first n invocations.
RECURSIVE RequestsUpTo(_)
RequestsUpTo(n) == IF n = 0 THEN 0 ELSE RequestsUpTo(n - 1) + calls[n].requests

\* All the requests sent so far.
TotalRequests == RequestsUpTo(Len(calls))

\* The positions at which a handleCheckout invocation has ended.
Ended == {"caught", "returned"}

\* The step is an invocation of handleCheckout.
CheckoutInvoked == clicks' = clicks + 1

\* `/products/` percent-encoded, as encodeURIComponent leaves it.
EncodedProductsPrefix ==
  <<"%", "2", "F", "p", "r", "o", "d", "u", "c", "t", "s", "%", "2", "F">>

(* ------------------------------ claims --------------------------------- *)

\* C1 (as stated): a checkout invoked with no authenticated user issues no
\* request, changes no UI state, and navigates to the literal
\* /login?redirect=/products/<id>.
C1_Original ==
  [][(CheckoutInvoked /\ user = NoUser) =>
       /\ calls' = calls
       /\ TotalRequests' = TotalRequests
       /\ UNCHANGED uiState
       /\ navLog' = Append(navLog, [op |-> "push",
                                    url |-> LoginPrefix \o ProductPath(id)])]_vars

\* C1 (amended): a checkout invoked with no authenticated user issues no
\* request, changes no UI state, and its only effect is one router.push of
\* /login?redirect= followed by the URI-component encoding of /products/<id>,
\* that is /login?redirect=%2Fproducts%2F<encoded id>.
C1_NoUserNavigatesToLogin ==
  [][(CheckoutInvoked /\ user = NoUser) =>
       /\ calls' = calls
       /\ TotalRequests' = TotalRequests
       /\ UNCHANGED uiState
       /\ navLog' = Append(navLog, [op |-> "push",
                                    url |-> LoginPrefix \o EncodedProductsPrefix
                                              \o encodeURIComponent(id)])]_vars

\* C1 witness: handleCheckout has run without a user on the product whose
\* identifier holds a space, and the router was pushed the escaped target.
C1_Witness ==
  /\ user = NoUser /\ clicks = 1 /\ calls = << >>
  /\ id = <<"a", " ", "b">>
  /\ navLog = << [op |-> "push",
                  url |-> LoginPrefix \o EncodedProductsPrefix
                            \o <<"a", "%", "2", "0", "b">>] >>

\* C2: a checkout invoked with a user while the payment-availability flag is
\* false sets the inline error to the configuration message, issues no
\* request, starts no invocation that could reach the client factory or the
\* redirect, does not navigate, and loading is false before and after.
C2_PaymentUnavailableStopsLocally ==
  [][(CheckoutInvoked /\ user # NoUser /\ ~stripeAvailable) =>
       /\ error' = ConfigMessage
       /\ calls' = calls
       /\ TotalRequests' = TotalRequests
       /\ navLog' = navLog
       /\ ~isLoading /\ ~isLoading'
       /\ UNCHANGED <<activeImageIndex, purchaseType, stripeAvailable>>]_vars

\* C2 witness: the configuration message is shown after a click by a signed-in
\* user with the flag false, and nothing was sent.
C2_Witness ==
  /\ user # NoUser /\ ~stripeAvailable /\ mounted
  /\ clicks = 1 /\ error = ConfigMessage /\ calls = << >> /\ ~isLoading

\* C3: handleCheckout is invoked, and a request is sent, only from a state in
\* which the product's stock is greater than 0 and loading is false.
C3_CheckoutOnlyInStockAndIdle ==
  [][(CheckoutInvoked \/ TotalRequests' # TotalRequests \/ Len(calls') # Len(calls)) =>
       (Found /\ product.stock > 0 /\ ~isLoading)]_vars

\* C3 witness: a second checkout was started after a first one failed.
C3_Witness ==
  /\ clicks = 2 /\ Len(calls) = 2
  /\ calls[1].pc = "caught" /\ calls[2].pc = "fetch" /\ isLoading

\* C4 (as stated): an invocation that received an OK response carrying a
\* session identifier s has, once it has ended, called the client factory and
\* the redirect exactly once each, the redirect with s; and after a redirect
\* without error loading is true and the error is empty.
C4_Original ==
  \A i \in 1..Len(calls) :
    (calls[i].pc \in Ended /\ calls[i].okSessionId # "") =>
      /\ calls[i].factoryCalls = 1
      /\ calls[i].redirectCalls = 1
      /\ calls[i].redirectArg = calls[i].okSessionId
      /\ (calls[i].pc = "returned" => (isLoading /\ error = ""))

\* C4 (amended): an invocation that received an OK response carrying a
\* non-empty session identifier s calls the client factory exactly once; if
\* the factory yields a client it calls the redirect exactly once, with
\* exactly s, and otherwise never; once the redirect has reported no error,
\* loading is true and the error message is empty ever after.
C4_SessionIdReachesRedirectOnce ==
  \A i \in 1..Len(calls) :
    /\ calls[i].factoryCalls <= 1
    /\ calls[i].redirectCalls <= 1
    /\ (calls[i].pc \in Ended /\ calls[i].okSessionId # "") =>
         calls[i].factoryCalls = 1
    /\ (calls[i].pc \in {"redirect"} \cup Ended /\ calls[i].stripe = "client") =>
         /\ calls[i].okSessionId # ""
         /\ calls[i].redirectCalls = 1
         /\ calls[i].redirectArg = calls[i].okSessionId
    /\ calls[i].stripe # "client" => calls[i].redirectCalls = 0
    /\ calls[i].pc = "returned" =>
         /\ calls[i].stripe = "client"
         /\ isLoading
         /\ error = ""

\* C4 witness: the redirect was given cs_123 and reported no error; loading is
\* still true.
C4_Witness ==
  \E i \in 1..Len(calls) :
    /\ calls[i].pc = "returned" /\ calls[i].okSessionId = "cs_123"
    /\ calls[i].redirectArg = "cs_123"
    /\ calls[i].factoryCalls = 1 /\ calls[i].redirectCalls = 1
    /\ isLoading /\ error = ""

\* The `error` field a non-OK body carries, when it parses and has a truthy one.
CarriesError(b) == b.kind = "object" /\ b.hasError /\ b.error # ""

\* C5 (as stated): when an invocation ends on a non-OK response, the inline
\* error equals the body's `error` field, or the generic fallback when the
\* body does not parse or has no such field, and loading is false.
C5_Original ==
  [][\A i \in 1..Len(calls) :
       (calls[i].pc = "errorJson" /\ calls'[i].pc = "caught") =>
         /\ error' = (IF CarriesError(calls[i].response.body)
                      THEN calls[i].response.body.error
                      ELSE SessionCreateFailed)
         /\ ~isLoading']_vars

\* C5 (amended): when an invocation ends on a non-OK response, the inline
\* error equals the fixed context prefix followed by the body's `error` field
\* when the body parses and that field is present and non-empty, and the
\* prefix followed by the generic fallback otherwise; loading is false.
C5_NonOkErrorIsPrefixedBodyError ==
  [][\A i \in 1..Len(calls) :
       (calls[i].pc = "errorJson" /\ calls'[i].pc = "caught") =>
         /\ error' = ErrorPrefix \o (IF CarriesError(calls[i].response.body)
                                     THEN calls[i].response.body.error
                                     ELSE SessionCreateFailed)
         /\ ~isLoading']_vars

\* C5 witness: a non-OK response with {error: "out of stock"} was reported.
C5_Witness ==
  \E i \in 1..Len(calls) :
    /\ calls[i].pc = "caught" /\ calls[i].factoryCalls = 0
    /\ error = ErrorPrefix \o "out of stock"
    /\ ~isLoading

\* Every message an error caught by handleCheckout may carry.
CaughtMessages ==
  {SessionCreateFailed, SessionIdMissing, StripeInitFailed, RedirectFailed}
    \cup RejectMessages
    \cup {b.error : b \in Bodies}
    \cup {r.message : r \in RedirectResults}

\* C6: every invocation that fails after loading was set (a rejected request,
\* a non-OK response, an OK response without a session id, a null client, a
\* redirect error) ends with loading false, a non-empty error that starts with
\* the context prefix, and the checkout button enabled; an invocation ends
\* without failing only by a redirect that reported no error.
C6_EveryFailureResetsLoading ==
  [][\A i \in 1..Len(calls) :
       /\ (calls[i].pc \notin Ended /\ calls'[i].pc = "caught") =>
            /\ isLoading
            /\ ~isLoading'
            /\ error' # ""
            /\ error' \in {ErrorPrefix \o m : m \in CaughtMessages}
            /\ ~ButtonDisabled'
       /\ (calls[i].pc \notin Ended /\ calls'[i].pc = "returned") =>
            (calls[i].pc = "redirect" /\ calls'[i].redirectCalls = 1)
       /\ (calls[i].pc = "caught" /\ Len(calls) = i) => ~isLoading]_vars

\* C6 witness: an invocation failed at the redirect step, and the button is
\* enabled again.
C6_Witness ==
  \E i \in 1..Len(calls) :
    /\ calls[i].pc = "caught" /\ calls[i].redirectCalls = 1
    /\ error = ErrorPrefix \o RedirectFailed
    /\ ~isLoading /\ ~ButtonDisabled

\* C7: whenever the product view renders, the active image index is within
\* [0, image-count) of the product's images, from mount on, and a click on
\* thumbnail i sets it to i.
C7_Original ==
  Found => activeImageIndex \in 0..(Len(product.images) - 1)

\* C8: for a product with stock = 0 the checkout button is disabled and
\* labelled out-of-stock in every state, whatever the user and the
\* availability flag, and no request is ever sent.
C8_OutOfStockNeverChecksOut ==
  (Found /\ product.stock = 0) =>
    /\ ButtonDisabled
    /\ ButtonLabel = "out-of-stock"
    /\ ~isLoading
    /\ clicks = 0
    /\ calls = << >>
    /\ TotalRequests = 0

\* C8 witness: the product without stock, shown to a signed-in user with
\* payment available and subscription mode selected.
C8_Witness ==
  /\ Found /\ product.stock = 0 /\ mounted
  /\ user # NoUser /\ stripeAvailable /\ purchaseType = "subscription"
  /\ ButtonLabel = "out-of-stock"

\* C9: an invocation sends exactly one request; a request is sent only by a
\* step that is a click on the checkout button, one per click; and an
\* invocation that has failed never again sends a request or calls the client
\* factory or the redirect.
C9_NoRetries ==
  [][/\ \A i \in 1..Len(calls) : calls[i].requests = 1
     /\ TotalRequests' # TotalRequests =>
          (CheckoutInvoked /\ TotalRequests' = TotalRequests + 1)
     /\ TotalRequests <= clicks
     /\ \A i \in 1..Len(calls) :
          calls[i].pc = "caught" => calls'[i] = calls[i]]_vars

\* C9 witness: a request was rejected and, after a new click, a second request
\* is in flight.
C9_Witness ==
  /\ Len(calls) = 2 /\ clicks = 2 /\ TotalRequests = 2
  /\ calls[1].pc = "caught" /\ calls[1].factoryCalls = 0
  /\ calls[2].pc = "fetch"

\* C10: for a subscription product in subscription mode the displayed
\* subscription price is the product's subscription price when it is present
\* and the base price when it is absent.
C10_Original ==
  (Found /\ product.isSubscription /\ purchaseType = "subscription") =>
    SubscriptionPriceDisplay =
      formatPrice(IF product.hasSubscriptionPrice
                  THEN product.subscriptionPrice ELSE product.price)
        \o <<"/", "month">>

\* C11: the payment-availability flag is false until the mount effect runs;
\* the effect runs once and sets the flag to the probe's result, to false when
\* the probe throws, leaving the (empty) inline error alone; afterwards no
\* step changes the flag.
C11_FlagSetOnceByProbe ==
  [][/\ ~mounted => (stripeAvailable = FALSE /\ probeOutcome = "pending")
     /\ mounted => (stripeAvailable = (probeOutcome = "true"))
     /\ mounted => (mounted' /\ stripeAvailable' = stripeAvailable
                             /\ probeOutcome' = probeOutcome)
     /\ (~mounted /\ mounted') =>
          /\ probeOutcome' \in {"true", "false", "throws"}
          /\ stripeAvailable' = (probeOutcome' = "true")
          /\ error = "" /\ error' = ""
          /\ UNCHANGED <<activeImageIndex, purchaseType, isLoading, calls, navLog>>]_vars

\* C11 witness: the probe threw; the flag is false and no error is shown.
C11_Witness ==
  /\ mounted /\ probeOutcome = "throws"
  /\ ~stripeAvailable /\ error = "" /\ clicks = 0

\* Some invocation is suspended at an await.
InFlight == {i \in 1..Len(calls) : calls[i].pc \notin Ended}

\* C12: while an invocation is suspended at any of its awaits loading is true
\* and the checkout button is disabled; loading goes from true to false only
\* in a step that delivers a failure to an invocation, never by a timeout, a
\* cancellation, a thumbnail click or a mode toggle.
C12_LoadingHeldWhilePending ==
  [][/\ InFlight # {} => (isLoading /\ ButtonDisabled)
     /\ (isLoading /\ ~isLoading') =>
          \E i \in InFlight : calls'[i].pc = "caught"
     /\ (\E i \in InFlight : calls'[i].pc \notin Ended) =>
          (isLoading' /\ ButtonDisabled')]_vars

\* C12 witness: a request is pending and, since it was sent, the user has
\* chosen another thumbnail and toggled the purchase mode; loading is true.
C12_Witness ==
  /\ Len(calls) = 1 /\ calls[1].pc = "fetch"
  /\ calls[1].request.purchaseType = "one-time"
  /\ purchaseType = "subscription" /\ activeImageIndex = 1
  /\ isLoading /\ ButtonDisabled

\* The catalog positions whose record has the route identifier.
Matches == {k \in 1..Len(products) : products[k].id = id}

\* C13: when the route identifier is the id of a catalog record the resolver
\* yields a record with that id (the first one in catalog order) and the
\* product view renders, where the router is never sent back; otherwise it
\* yields none and the not-found view renders, where handleCheckout is never
\* invoked, the image index and the purchase mode never change, and the only
\* router call is back().
C13_ResolverAndNotFoundView ==
  /\ Matches # {} =>
       /\ Found
       /\ product.id = id
       /\ \E k \in Matches : product = products[k] /\ \A j \in Matches : k <= j
       /\ \A n \in 1..Len(navLog) : navLog[n].op = "push"
  /\ Matches = {} =>
       /\ ~Found
       /\ product = NoProduct
       /\ clicks = 0 /\ calls = << >> /\ TotalRequests = 0
       /\ activeImageIndex = 0 /\ purchaseType = "one-time"
       /\ ~isLoading /\ error = ""
       /\ \A n \in 1..Len(navLog) : navLog[n].op = "back"

\* C13 witness: the not-found view of an identifier the catalog does not hold,
\* after the mount effect and a click on go-back.
C13_Witness ==
  /\ id = <<"z", "z">> /\ ~Found /\ mounted
  /\ navLog = << [op |-> "back", url |-> << >>] >>

\* C14: at most one invocation is suspended at any time; a request is sent
\* only when none is suspended and every earlier invocation has failed,
\* whatever the order of clicks and responses.
C14_AtMostOneInFlight ==
  [][/\ Cardinality(InFlight) <= 1
     /\ Len(calls') > Len(calls) =>
          /\ InFlight = {}
          /\ \A i \in 1..Len(calls) : calls[i].pc = "caught"
          /\ Cardinality(InFlight') = 1
     /\ TotalRequests' > TotalRequests => InFlight = {}]_vars

\* C14 witness: the first invocation failed and the second one is awaiting the
\* redirect.
C14_Witness ==
  /\ Len(calls) = 2
  /\ calls[1].pc = "caught" /\ calls[2].pc = "redirect"
  /\ InFlight = {2} /\ isLoading

\* The session identifier a body carries, when it parses and has a truthy one.
CarriesSessionId(b) == b.kind = "object" /\ b.hasSessionId /\ b.sessionId # ""

\* C15: the client factory is called only on an OK response that carries a
\* session identifier, and the redirect only after the factory returned a
\* client; an OK response without a session identifier, or a null client,
\* ends the invocation in the catch block with the redirect never called, then
\* or later.
C15_ChainIsOrdered ==
  [][\A i \in 1..Len(calls) :
       /\ calls[i].factoryCalls > 0 => calls[i].okSessionId # ""
       /\ calls[i].redirectCalls > 0 =>
            (calls[i].stripe = "client" /\ calls[i].factoryCalls = 1)
       /\ calls[i].stripe = "null" =>
            (calls[i].pc = "caught" /\ calls[i].redirectCalls = 0)
       /\ calls'[i].factoryCalls > calls[i].factoryCalls =>
            /\ calls[i].pc = "dataJson" /\ calls[i].response.ok
            /\ CarriesSessionId(calls[i].response.body)
       /\ calls'[i].redirectCalls > calls[i].redirectCalls =>
            /\ calls[i].pc = "getStripe" /\ calls[i].factoryCalls = 1
            /\ calls'[i].stripe = "client"
       /\ (/\ calls[i].pc = "dataJson" /\ calls'[i] # calls[i]
           /\ ~CarriesSessionId(calls[i].response.body)) =>
            /\ calls'[i].pc = "caught"
            /\ calls'[i].factoryCalls = 0 /\ calls'[i].redirectCalls = 0
            /\ ~isLoading'
       /\ (calls[i].pc = "getStripe" /\ calls'[i].stripe = "null") =>
            (calls'[i].pc = "caught" /\ calls'[i].redirectCalls = 0 /\ ~isLoading')
       /\ calls[i].pc = "caught" => calls'[i] = calls[i]]_vars

\* C15 witness: an OK response without a session identifier ended the
\* invocation before the factory or the redirect was called.
C15_Witness ==
  /\ Len(calls) = 1 /\ calls[1].pc = "caught"
  /\ error = ErrorPrefix \o SessionIdMissing
  /\ calls[1].factoryCalls = 0 /\ calls[1].redirectCalls = 0 /\ ~isLoading

\* C16: every request sent holds exactly one line item, of quantity 1; its
\* purchaseType tag is the purchase selection at the click; its unit price is
\* the subscription price when the selection is subscription and the product
\* has a non-zero subscription price, and the base price otherwise; and the
\* request of an invocation never changes.
C16_RequestContents ==
  [][/\ Len(calls') > Len(calls) =>
          LET r == calls'[Len(calls')].request IN
            /\ Len(calls') = Len(calls) + 1
            /\ Len(r.items) = 1
            /\ r.items[1].quantity = 1
            /\ r.purchaseType = purchaseType
            /\ r.items[1].price =
                 (IF /\ purchaseType = "subscription"
                     /\ product.hasSubscriptionPrice
                     /\ product.subscriptionPrice # 0
                  THEN product.subscriptionPrice
                  ELSE product.price)
     /\ \A i \in 1..Len(calls) : calls'[i].request = calls[i].request]_vars

\* C16 witness: a request sent in subscription mode for the product whose
\* subscription price is 800.
C16_Witness ==
  /\ id = <<"p", "1">> /\ Len(calls) = 1
  /\ calls[1].request.purchaseType = "subscription"
  /\ calls[1].request.items[1].price = 800
  /\ calls[1].request.items[1].quantity = 1

\* C17: whenever loading is true the error message is empty.
C17_LoadingImpliesNoError ==
  isLoading => error = ""

\* C17 witness: an attempt failed and left its message, and a new attempt is
\* in progress with the message cleared.
C17_Witness ==
  /\ Len(calls) = 2
  /\ calls[1].pc = "caught" /\ calls[2].pc = "getStripe"
  /\ isLoading /\ error = ""

\* C18: the purchase selection is subscription only for a product whose
\* subscription-eligibility flag is true; so for a product with
\* isSubscription = false every request carries purchaseType one-time and the
\* base price.
C18_SubscriptionOnlyIfEligible ==
  /\ purchaseType = "subscription" => (Found /\ product.isSubscription)
  /\ (Found /\ ~product.isSubscription) =>
       \A i \in 1..Len(calls) :
         /\ calls[i].request.purchaseType = "one-time"
         /\ calls[i].request.items[1].price = product.price

\* C18 witness: a request was sent for the product that is not eligible for
\* subscription although it has a subscription price.
C18_Witness ==
  /\ id = <<"a", " ", "b">> /\ ~product.isSubscription
  /\ product.hasSubscriptionPrice
  /\ Len(calls) = 1
  /\ calls[1].request.purchaseType = "one-time"
  /\ calls[1].request.items[1].price = 12345

\* C19: a checkout click with no authenticated user leaves the image index,
\* the purchase selection, loading, the error message and the availability
\* flag as they were, so an earlier error stays; the error goes from non-empty
\* to empty only in a checkout click that passes both preconditions.
C19_NoUserClickKeepsUiState ==
  [][/\ (CheckoutInvoked /\ user = NoUser) =>
          UNCHANGED <<activeImageIndex, purchaseType, isLoading, error,
                      stripeAvailable>>
     /\ (error # "" /\ error' = "") =>
          /\ CheckoutInvoked
          /\ user # NoUser /\ stripeAvailable
          /\ isLoading' /\ Len(calls') = Len(calls) + 1]_vars

\* C19 witness: an attempt failed, the user signed out and clicked again; the
\* router was pushed and the failure's message is still shown.
C19_Witness ==
  /\ user = NoUser /\ clicks = 2
  /\ Len(calls) = 1 /\ calls[1].pc = "caught"
  /\ error = ErrorPrefix \o "Failed to fetch" /\ ~isLoading
  /\ Len(navLog) = 1 /\ navLog[1].op = "push"

====
